---- MODULE Spec2Model ----
(***************************************************************************)
(* Model of mypy/fswatcher.py: FileSystemWatcher, a polling watcher that   *)
(* keeps a set of watched paths and, per path, the FileData recorded by    *)
(* the last poll, and reports the paths whose file changed.                *)
(*                                                                         *)
(* The file system accessor (mypy.fscache.FileSystemCache) is modelled by  *)
(* the variable fs and the operators StatOutcomes and Md5Outcomes.         *)
(***************************************************************************)
EXTENDS Integers, Sequences, FiniteSets, TLC

VARIABLES
    paths,        \* self._paths
    file_data,    \* self._file_data: a map, path -> None or FileData
    fs,           \* the file system behind self.fs: path -> NotFound or a file
    pc,           \* where the caller is: idle, or a place in find_changed
    todo,         \* find_changed: the paths the for loop has not visited yet
    changed,      \* find_changed: the local set changed
    cur,          \* find_changed: the loop variable path
    old,          \* find_changed: the local old
    st,           \* find_changed: the local st
    new_md5,      \* find_changed: the local new_md5
    exc,          \* the exception leaving find_changed
    pre,          \* history: file_data when the running poll began
    hist,         \* history: per path, what the caller last did with it
    lost,         \* history: per path, the snapshot a returned poll saw vanish
    prevReturned, \* history: the last thing that happened was a poll returning
    it_used,      \* find_changed: the size the set iterator of line 64 started with
    removing,     \* a second caller's remove_watched_paths between lines 53 and 54
    queries,      \* history: the accessor calls of the running poll
    last,         \* history: the call just made, if add/remove_watched_paths
    kept,         \* history: paths removed while snapshot and file agreed
    dirty,        \* history: the files written since the last poll returned
    owed          \* history: paths whose snapshot an aborted poll changed

vars == <<paths, file_data, fs, pc, todo, changed, cur, old, st, new_md5, exc,
          pre, hist, lost, prevReturned, it_used, removing, queries,
          last, kept, dirty, owed>>

locals == <<todo, changed, cur, old, st, new_md5, exc, pre>>

\* The history variables that only some specifications record.
aux == <<last, kept, dirty, owed>>

(***************************************************************************)
(* Bounds and value domains.                                               *)
(***************************************************************************)
MaxTime == 1
MaxListLen == 2

Paths == {"a", "b"}
Sizes == {0, 1}
Times == 0..MaxTime
Hashes == {"d0", "d1"}

\* Python's None, and the state of a path with no file.
None == [none |-> TRUE]
NotFound == [notfound |-> TRUE]
NoPath == "NoPath"
NoExc == "NoExc"
NoMd5 == "unset"

\* An exception raised by the accessor.
Err(kind) == [err |-> kind]

\* FileData = NamedTuple('FileData', [st_mtime, st_size, md5])
FileData == [st_mtime : Times, st_size : Sizes, md5 : Hashes]

MkFileData(mtime, size, md5) == [st_mtime |-> mtime, st_size |-> size, md5 |-> md5]

\* What a path is on disk: missing, or a file with its mtime, size and digest.
FsStates == {NotFound} \cup FileData

\* Failures of the accessor other than a missing file.
Faults == {Err("OSError")}

\* The snapshots a caller hands to set_file_data.
DataInputs == {MkFileData(0, 0, "d0"), MkFileData(MaxTime, 1, "d1")}

\* History: the content (size and digest) of a snapshot.
ContentOf(d) == [st_size |-> d.st_size, md5 |-> d.md5]

EmptyMap == [p \in {} |-> None]

\* History: the value of a history variable that is not recorded.
Off == {"off"}
LastOff == [op |-> "off", arg |-> {}, quiet |-> FALSE]

\* History: no poll has returned since the last call other than a file write.
NoBase == {"none"}
NoCall == [op |-> "none", arg |-> {}, quiet |-> FALSE]
NoKept == [p \in Paths |-> "no"]
KeptOff == [p \in Paths |-> "off"]
HistOff == [p \in Paths |-> "off"]
LostOff == [p \in Paths |-> [off |-> TRUE]]
PreOff == [p \in {"off"} |-> None]
QueriesOff == {<<"off", "off">>}

\* Argument lists of add_watched_paths / remove_watched_paths.
PathLists == UNION {[1..n -> Paths] : n \in 0..MaxListLen}

SetOf(seq) == {seq[i] : i \in 1..Len(seq)}

(***************************************************************************)
(* The accessor: stat and md5 of a path on the current file system.        *)
(***************************************************************************)
StatOf(f) == [st_mtime |-> f.st_mtime, st_size |-> f.st_size]

StatOutcomes(p) ==
    (IF fs[p] = NotFound THEN {Err("FileNotFoundError")} ELSE {StatOf(fs[p])}) \cup Faults

Md5Outcomes(p) ==
    (IF fs[p] = NotFound THEN {} ELSE {fs[p].md5}) \cup {f.err : f \in Faults}

(***************************************************************************)
(* Initial state: an empty watcher over any file system.                   *)
(***************************************************************************)
InitWatcher ==
    /\ paths = {}
    /\ file_data = EmptyMap
    /\ fs \in [Paths -> FsStates]
    /\ pc = "idle"
    /\ todo = {}
    /\ changed = {}
    /\ cur = NoPath
    /\ old = None
    /\ st = None
    /\ new_md5 = NoMd5
    /\ exc = NoExc
    /\ prevReturned = FALSE
    /\ it_used = 0
    /\ removing = <<>>

Init ==
    /\ InitWatcher
    /\ pre = EmptyMap
    /\ queries = {}
    /\ hist = [p \in Paths |-> "never"]
    /\ lost = [p \in Paths |-> None]
    /\ last = LastOff
    /\ kept = KeptOff
    /\ dirty = Off
    /\ owed = Off

(***************************************************************************)
(* History of the calls: what add_watched_paths, remove_watched_paths and  *)
(* set_file_data record.                                                   *)
(***************************************************************************)
\* last: the add_watched_paths call just made, "add_again" when the call before
\* it was the same; quiet when it named watched paths only and nothing but
\* such calls happened since a poll returned.
SetLast(op, arg) ==
    last' = IF last = LastOff THEN last
            ELSE IF op # "add" THEN NoCall
            ELSE [op |-> IF last.op \in {"add", "add_again"} /\ last.arg = arg
                         THEN "add_again" ELSE "add",
                  arg |-> arg,
                  quiet |-> arg \subseteq paths /\ (prevReturned \/ last.quiet)]

\* kept[p]: p was removed while watched and no snapshot was set for it since;
\* "same" while its file is still what the removed snapshot described.
Keep(f) == kept' = IF kept = KeptOff THEN kept ELSE [p \in Paths |-> f[p]]

\* The accessor calls qs are made.
Query(qs) == queries' = IF queries = QueriesOff THEN queries ELSE queries \cup qs

\* A call by the caller that touches the paths in ps.
CallHistory(op, arg, ps) ==
    /\ SetLast(op, arg)
    /\ dirty' = IF dirty = Off THEN dirty ELSE NoBase
    /\ owed' = IF owed = Off THEN owed ELSE owed \ ps

\* A snapshot o replaced by n differs from it in presence, size or md5.
SnapshotChanged(o, n) ==
    \/ (o = None) # (n = None)
    \/ o # None /\ n # None /\ (o.st_size # n.st_size \/ o.md5 # n.md5)

\* A snapshot and a file that agree: both missing, or the same data.
Agree(o, f) == (o = None /\ f = NotFound) \/ o = f

\* A file of path p is written.
WriteHistory(p) ==
    /\ SetLast("none", {})
    /\ Keep([q \in Paths |-> IF q = p /\ kept[q] = "same" THEN "any" ELSE kept[q]])
    /\ dirty' = IF dirty \in {Off, NoBase} THEN dirty ELSE dirty \cup {p}
    /\ owed' = IF owed = Off THEN owed ELSE owed \ {p}

(***************************************************************************)
(* Dictionary helpers.                                                     *)
(***************************************************************************)
Put(fd, k, v) == [x \in DOMAIN fd \cup {k} |-> IF x = k THEN v ELSE fd[x]]

Del(fd, k) == [x \in DOMAIN fd \ {k} |-> fd[x]]

(***************************************************************************)
(* set_file_data(path, data)                                               *)
(***************************************************************************)
SetFileDataMap(fd, path, data) == Put(fd, path, data)

set_file_data(path, data) ==
    /\ pc = "idle"
    /\ file_data' = SetFileDataMap(file_data, path, data)
    /\ hist' = IF hist = HistOff THEN hist ELSE [hist EXCEPT ![path] =
                   IF @ \in {"fresh", "reported"} THEN "watched" ELSE @]
    /\ lost' = IF lost = LostOff THEN lost ELSE [lost EXCEPT ![path] = None]
    /\ prevReturned' = FALSE
    /\ CallHistory("none", {}, {path})
    /\ Keep([q \in Paths |-> IF q = path THEN "no" ELSE kept[q]])
    /\ UNCHANGED <<paths, fs, pc, locals, it_used, removing, queries>>

RECURSIVE AddLoopResets(_, _, _)
\* Variant of AddLoop: every path of the list gets the entry None.
AddLoopResets(fd, ps, seq) ==
    IF seq = <<>> THEN fd
    ELSE AddLoopResets(Put(fd, Head(seq), None), ps, Tail(seq))

(***************************************************************************)
(* add_watched_paths(paths)                                                *)
(***************************************************************************)
RECURSIVE AddLoopKeepsEntry(_, _, _)
\* Variant of AddLoop: the test is made on the snapshot map, not on self._paths.
AddLoopKeepsEntry(fd, ps, seq) ==
    IF seq = <<>> THEN fd
    ELSE AddLoopKeepsEntry(IF Head(seq) \notin DOMAIN fd
                           THEN Put(fd, Head(seq), None) ELSE fd,
                           ps, Tail(seq))

RECURSIVE AddLoop(_, _, _)
\* The for loop: a path not in self._paths gets the entry None.
AddLoop(fd, ps, seq) ==
    IF seq = <<>> THEN fd
    ELSE AddLoop(IF Head(seq) \notin ps THEN Put(fd, Head(seq), None) ELSE fd,
                 ps, Tail(seq))

AddPaths(ps, seq) == ps \cup SetOf(seq)

add_watched_paths(seq) ==
    /\ pc = "idle"
    /\ file_data' = AddLoop(file_data, paths, seq)
    /\ paths' = AddPaths(paths, seq)
    /\ hist' = IF hist = HistOff THEN hist ELSE [p \in Paths |->
                   IF p \in SetOf(seq) /\ p \notin paths
                   THEN (IF fs[p] # NotFound THEN "fresh" ELSE "watched")
                   ELSE hist[p]]
    /\ lost' = IF lost = LostOff THEN lost ELSE [p \in Paths |->
                   IF p \in SetOf(seq) /\ p \notin paths THEN None ELSE lost[p]]
    /\ prevReturned' = FALSE
    /\ CallHistory("add", SetOf(seq), {})
    /\ UNCHANGED <<fs, pc, locals, it_used, removing, queries, kept>>

\* Variant of RemoveLoop: the entries are left in the snapshot map.
RemoveLoopKeepsEntry(fd, seq) == fd

(***************************************************************************)
(* remove_watched_paths(paths)                                             *)
(***************************************************************************)
RECURSIVE RemoveLoop(_, _)
\* The for loop: a path with an entry loses it.
RemoveLoop(fd, seq) ==
    IF seq = <<>> THEN fd
    ELSE RemoveLoop(IF Head(seq) \in DOMAIN fd THEN Del(fd, Head(seq)) ELSE fd,
                    Tail(seq))

\* Variant of RemovePaths: self._paths is left as it is.
RemovePathsKeeps(ps, seq) == ps

RemovePaths(ps, seq) == ps \ SetOf(seq)

remove_watched_paths(seq) ==
    /\ pc = "idle"
    /\ file_data' = RemoveLoop(file_data, seq)
    /\ paths' = RemovePaths(paths, seq)
    /\ hist' = IF hist = HistOff THEN hist ELSE [p \in Paths |->
                   IF p \in SetOf(seq) /\ p \in paths THEN "removed" ELSE hist[p]]
    /\ lost' = IF lost = LostOff THEN lost ELSE
                   [p \in Paths |-> IF p \in SetOf(seq) THEN None ELSE lost[p]]
    /\ prevReturned' = FALSE
    /\ CallHistory("remove", SetOf(seq), SetOf(seq))
    /\ Keep([p \in Paths |->
                IF p \in SetOf(seq) /\ p \in paths
                THEN (IF p \in DOMAIN file_data /\ Agree(file_data[p], fs[p])
                      THEN "same" ELSE "any")
                ELSE kept[p]])
    /\ UNCHANGED <<fs, pc, locals, it_used, removing, queries>>

(***************************************************************************)
(* The environment: a file is created, rewritten or deleted.               *)
(***************************************************************************)
FsWrite(p, f) ==
    /\ pc = "idle"
    /\ f # fs[p]
    /\ fs' = [fs EXCEPT ![p] = f]
    /\ hist' = IF hist = HistOff THEN hist ELSE [hist EXCEPT ![p] =
                   IF @ \in {"fresh", "reported"} THEN "watched"
                   ELSE IF @ = "removed" THEN "removed_changed" ELSE @]
    /\ prevReturned' = FALSE
    /\ WriteHistory(p)
    /\ UNCHANGED <<paths, file_data, pc, locals, lost, it_used, removing, queries>>

\* Variant of MetaDiffers: the fast path is never taken.
MetaDiffersAlways(s, o) == TRUE

\* Variant of MetaDiffers: a file counts as modified unless its mtime went back.
MetaDiffersMtimeGeq(s, o) == s.st_size # o.st_size \/ s.st_mtime >= o.st_mtime

(***************************************************************************)
(* find_changed()                                                          *)
(***************************************************************************)
\* Line 78: the metadata test that decides whether md5 is computed.
MetaDiffers(s, o) == s.st_size # o.st_size \/ s.st_mtime # o.st_mtime

\* Variant of IsChanged: a new mtime alone counts as a change.
IsChangedMtime(s, o, h) ==
    s.st_size # o.st_size \/ s.st_mtime # o.st_mtime \/ h # o.md5

\* Line 83: the test that decides whether a rehashed file is reported.
IsChanged(s, o, h) == s.st_size # o.st_size \/ h # o.md5

\* Variant of Updated: FileData built with size and mtime in each other's place.
UpdatedSwapped(s, h) == MkFileData(s.st_size, s.st_mtime, h)

\* Line 59: the FileData that _update stores.
Updated(s, h) == MkFileData(s.st_mtime, s.st_size, h)

\* Variant of DeletedChanged: a missing file is reported whatever old is.
DeletedChangedAlways(ch, p, o) == ch \cup {p}

\* Variant of DeletedData: a deletion found resets every snapshot to None.
DeletedDataResetsAll(fd, p, o) ==
    IF o # None THEN [x \in DOMAIN fd |-> None] ELSE fd

\* Lines 69-72: stat raised FileNotFoundError.
DeletedChanged(ch, p, o) == IF o # None THEN ch \cup {p} ELSE ch

DeletedData(fd, p, o) == IF o # None THEN [fd EXCEPT ![p] = None] ELSE fd

\* Variant of NewChanged: a new file is not reported.
NewChangedSilent(ch, p) == ch

\* Lines 74-76: the file is new.
NewChanged(ch, p) == ch \cup {p}

\* Variant of LoopPaths: the loop runs over the keys of the snapshot map.
LoopPathsKeys == DOMAIN file_data

\* The paths the for loop of line 64 runs over.
LoopPaths == paths

ClearLocals ==
    /\ todo' = {}
    /\ changed' = {}
    /\ cur' = NoPath
    /\ old' = None
    /\ st' = None
    /\ new_md5' = NoMd5
    /\ exc' = NoExc
    /\ pre' = IF pre = PreOff THEN pre ELSE EmptyMap
    /\ it_used' = 0
    /\ queries' = IF queries = QueriesOff THEN queries ELSE {}

\* An exception leaves find_changed while the loop body works on path p: the
\* frame and its locals are gone.
Throw(kind, p) ==
    /\ pc' = "raised"
    /\ exc' = kind
    /\ cur' = p
    /\ todo' = {}
    /\ changed' = {}
    /\ old' = None
    /\ st' = None
    /\ new_md5' = NoMd5
    /\ UNCHANGED file_data

\* The loop body is done with path p.
Advance(p) ==
    /\ pc' = "loop"
    /\ todo' = todo \ {p}
    /\ cur' = NoPath
    /\ old' = None
    /\ st' = None
    /\ new_md5' = NoMd5
    /\ exc' = NoExc

\* Lines 61-63: the call, with changed = set().
FindChangedBegin ==
    /\ pc = "idle"
    /\ pc' = "loop"
    /\ todo' = LoopPaths
    /\ changed' = {}
    /\ pre' = IF pre = PreOff THEN pre ELSE file_data
    /\ it_used' = Cardinality(paths)
    /\ queries' = IF queries = QueriesOff THEN queries ELSE {}
    /\ last' = IF last = LastOff \/ last.quiet THEN last ELSE NoCall
    /\ UNCHANGED <<paths, file_data, fs, cur, old, st, new_md5, exc,
                   hist, lost, prevReturned, removing, kept, dirty, owed>>

\* Lines 64-78: the next path of the loop, its old snapshot and its stat.
FindChangedStat(p) ==
    /\ pc = "loop"
    /\ p \in todo
    /\ UNCHANGED <<paths, fs, pre, hist, lost, prevReturned, it_used, removing, aux>>
    /\ IF Cardinality(paths) # it_used
       THEN /\ Throw("RuntimeError", NoPath)
            /\ UNCHANGED queries
       ELSE IF p \notin DOMAIN file_data
       THEN /\ Throw("KeyError", p)
            /\ UNCHANGED queries
       ELSE \E r \in StatOutcomes(p) :
            LET o == file_data[p] IN
            /\ Query({<<"stat", p>>})
            /\ IF r \in Faults
               THEN Throw(r.err, p)
               ELSE IF r = Err("FileNotFoundError")
               THEN /\ changed' = DeletedChanged(changed, p, o)
                    /\ file_data' = DeletedData(file_data, p, o)
                    /\ Advance(p)
               ELSE IF o = None
               THEN /\ changed' = NewChanged(changed, p)
                    /\ pc' = "update_new"
                    /\ cur' = p
                    /\ old' = o
                    /\ st' = r
                    /\ UNCHANGED <<file_data, todo, new_md5, exc>>
               ELSE IF MetaDiffers(r, o)
               THEN /\ pc' = "md5"
                    /\ cur' = p
                    /\ old' = o
                    /\ st' = r
                    /\ UNCHANGED <<file_data, todo, changed, new_md5, exc>>
               ELSE /\ Advance(p)
                    /\ UNCHANGED <<file_data, changed>>

\* Line 81: new_md5 = self.fs.md5(path).
FindChangedMd5 ==
    /\ pc = "md5"
    /\ Query({<<"md5", cur>>})
    /\ UNCHANGED <<paths, fs, pre, hist, lost, prevReturned, it_used, removing, aux>>
    /\ \E h \in Md5Outcomes(cur) :
       IF Err(h) \in Faults
       THEN Throw(h, cur)
       ELSE /\ pc' = "update_mod"
            /\ new_md5' = h
            /\ UNCHANGED <<file_data, todo, changed, cur, old, st, exc>>

\* Lines 56-59: what _update(path) does with the outcomes s of its stat and h
\* of its md5: an exception, or the new entry.
UpdateResult(s, h) ==
    IF s \in Faults \cup {Err("FileNotFoundError")} THEN s
    ELSE IF Err(h) \in Faults THEN Err(h)
    ELSE Updated(s, h)

\* Lines 57-58: the accessor calls _update(path) makes: no md5 after a failed stat.
UpdateQueries(p, s) ==
    {<<"stat", p>>} \cup
    (IF s \in Faults \cup {Err("FileNotFoundError")} THEN {} ELSE {<<"md5", p>>})

\* Line 77: self._update(path) for a new file.
FindChangedUpdateNew ==
    /\ pc = "update_new"
    /\ UNCHANGED <<paths, fs, pre, hist, lost, prevReturned, it_used, removing, aux>>
    /\ \E s \in StatOutcomes(cur), h \in Md5Outcomes(cur) :
       LET u == UpdateResult(s, h) IN
       /\ Query(UpdateQueries(cur, s))
       /\ IF u \notin FileData
          THEN Throw(u.err, cur)
          ELSE /\ file_data' = Put(file_data, cur, u)
               /\ Advance(cur)
               /\ UNCHANGED changed

\* Variant of FindChangedUpdateMod: _update stores the stat before it asks for
\* the md5, so a failing md5 leaves the entry with the new size and mtime and
\* the old md5.
FindChangedUpdateModPartial ==
    /\ pc = "update_mod"
    /\ UNCHANGED <<paths, fs, pre, hist, lost, prevReturned, it_used, removing, aux>>
    /\ \E s \in StatOutcomes(cur), h \in Md5Outcomes(cur) :
       LET u == UpdateResult(s, h) IN
       /\ Query(UpdateQueries(cur, s))
       /\ IF u \notin FileData
          THEN /\ pc' = "raised"
               /\ exc' = u.err
               /\ file_data' = Put(file_data, cur,
                                    MkFileData(st.st_mtime, st.st_size, old.md5))
               /\ todo' = {}
               /\ changed' = {}
               /\ old' = None
               /\ st' = None
               /\ new_md5' = NoMd5
               /\ UNCHANGED cur
          ELSE /\ file_data' = Put(file_data, cur, u)
               /\ changed' = IF IsChanged(st, old, new_md5)
                             THEN changed \cup {cur} ELSE changed
               /\ Advance(cur)

\* Variant of FindChangedUpdateMod: only a reported path gets a new snapshot.
FindChangedUpdateModIfChanged ==
    /\ pc = "update_mod"
    /\ UNCHANGED <<paths, fs, pre, hist, lost, prevReturned, it_used, removing, aux>>
    /\ \E s \in StatOutcomes(cur), h \in Md5Outcomes(cur) :
       LET u == UpdateResult(s, h) IN
       /\ Query(UpdateQueries(cur, s))
       /\ IF u \notin FileData
          THEN Throw(u.err, cur)
          ELSE /\ file_data' = IF IsChanged(st, old, new_md5)
                               THEN Put(file_data, cur, u) ELSE file_data
               /\ changed' = IF IsChanged(st, old, new_md5)
                             THEN changed \cup {cur} ELSE changed
               /\ Advance(cur)

\* Lines 82-85: self._update(path), then the report of a changed file.
FindChangedUpdateMod ==
    /\ pc = "update_mod"
    /\ UNCHANGED <<paths, fs, pre, hist, lost, prevReturned, it_used, removing, aux>>
    /\ \E s \in StatOutcomes(cur), h \in Md5Outcomes(cur) :
       LET u == UpdateResult(s, h) IN
       /\ Query(UpdateQueries(cur, s))
       /\ IF u \notin FileData
          THEN Throw(u.err, cur)
          ELSE /\ file_data' = Put(file_data, cur, u)
               /\ changed' = IF IsChanged(st, old, new_md5)
                             THEN changed \cup {cur} ELSE changed
               /\ Advance(cur)

\* Lines 64 and 86: the iterator is exhausted, return changed.
FindChangedReturn ==
    /\ pc = "loop"
    /\ todo = {}
    /\ IF Cardinality(paths) # it_used
       THEN Throw("RuntimeError", NoPath)
       ELSE /\ pc' = "ret"
            /\ UNCHANGED <<file_data, todo, changed, cur, old, st, new_md5, exc>>
    /\ UNCHANGED <<paths, fs, pre, hist, lost, prevReturned, it_used, removing,
                   queries, aux>>

\* The caller has the returned set.
Returned ==
    /\ pc = "ret"
    /\ pc' = "idle"
    /\ ClearLocals
    /\ hist' = IF hist = HistOff THEN hist ELSE
                   [p \in Paths |-> IF hist[p] = "fresh" THEN "reported" ELSE hist[p]]
    /\ lost' = IF lost = LostOff THEN lost ELSE [p \in Paths |->
                   IF p \notin DOMAIN pre \/ p \notin DOMAIN file_data THEN lost[p]
                   ELSE IF file_data[p] # None THEN None
                   ELSE IF pre[p] # None THEN ContentOf(pre[p])
                   ELSE lost[p]]
    /\ prevReturned' = TRUE
    /\ Keep([p \in Paths |-> IF p \in paths THEN "no" ELSE kept[p]])
    /\ dirty' = IF dirty = Off THEN dirty ELSE {}
    /\ owed' = IF owed = Off THEN owed ELSE {}
    /\ SetLast("none", {})
    /\ UNCHANGED <<paths, file_data, fs, removing>>

\* The caller has the exception.
Raised ==
    /\ pc = "raised"
    /\ pc' = "idle"
    /\ ClearLocals
    /\ hist' = IF hist = HistOff THEN hist ELSE
                   [p \in Paths |-> IF hist[p] = "fresh" THEN "watched" ELSE hist[p]]
    /\ lost' = IF lost = LostOff THEN lost ELSE [p \in Paths |->
                   IF p \in DOMAIN file_data /\ file_data[p] # None
                   THEN None ELSE lost[p]]
    /\ prevReturned' = FALSE
    /\ Keep([p \in Paths |-> IF p \in paths THEN "no" ELSE kept[p]])
    /\ dirty' = IF dirty = Off THEN dirty ELSE NoBase
    /\ owed' = IF owed = Off THEN owed
               ELSE owed \cup {p \in paths \cap DOMAIN pre \cap DOMAIN file_data :
                                  SnapshotChanged(pre[p], file_data[p])}
    /\ SetLast("none", {})
    /\ UNCHANGED <<paths, file_data, fs, removing>>

(***************************************************************************)
(* The watcher used by one caller, the file system changing between calls. *)
(***************************************************************************)
Next ==
    \/ \E p \in Paths, d \in DataInputs : set_file_data(p, d)
    \/ \E seq \in PathLists : add_watched_paths(seq)
    \/ \E seq \in PathLists : remove_watched_paths(seq)
    \/ \E p \in Paths, f \in FsStates : FsWrite(p, f)
    \/ FindChangedBegin
    \/ \E p \in Paths : FindChangedStat(p)
    \/ FindChangedMd5
    \/ FindChangedUpdateNew
    \/ FindChangedUpdateMod
    \/ FindChangedReturn
    \/ Returned
    \/ Raised

Spec == Init /\ [][Next]_vars

(***************************************************************************)
(* The same, with a file deleted while a poll is running: the stat of      *)
(* _update may then see another file system than the stat of line 67.      *)
(***************************************************************************)
FsRace(p) ==
    /\ pc \in {"loop", "md5", "update_new", "update_mod"}
    /\ fs[p] # NotFound
    /\ fs' = [fs EXCEPT ![p] = NotFound]
    /\ hist' = IF hist = HistOff THEN hist ELSE [hist EXCEPT ![p] =
                   IF @ \in {"fresh", "reported"} THEN "watched"
                   ELSE IF @ = "removed" THEN "removed_changed" ELSE @]
    /\ WriteHistory(p)
    /\ UNCHANGED <<paths, file_data, pc, locals, lost, prevReturned, it_used,
                   removing, queries>>

NextRace ==
    \/ Next
    \/ \E p \in Paths : FsRace(p)

SpecRace == Init /\ [][NextRace]_vars

(***************************************************************************)
(* The one caller again, with more of its history recorded: in SpecAdd the *)
(* add_watched_paths call just made, in SpecKept the paths removed while   *)
(* watched.                                                                *)
(***************************************************************************)
InitAdd ==
    /\ InitWatcher
    /\ pre = EmptyMap
    /\ queries = {}
    /\ hist = HistOff
    /\ lost = LostOff
    /\ last = NoCall
    /\ kept = KeptOff
    /\ dirty = Off
    /\ owed = Off

SpecAdd == InitAdd /\ [][Next]_vars

InitKept ==
    /\ InitWatcher
    /\ pre = EmptyMap
    /\ queries = {}
    /\ hist = HistOff
    /\ lost = LostOff
    /\ last = LastOff
    /\ kept = NoKept
    /\ dirty = Off
    /\ owed = Off

SpecKept == InitKept /\ [][Next]_vars

(***************************************************************************)
(* The one caller, with the files written since the last poll that         *)
(* returned recorded in dirty (no baseline after any other call).          *)
(***************************************************************************)
InitPair ==
    /\ InitWatcher
    /\ pre = EmptyMap
    /\ queries = {}
    /\ hist = HistOff
    /\ lost = LostOff
    /\ last = LastOff
    /\ kept = KeptOff
    /\ dirty = NoBase
    /\ owed = Off

SpecPair == InitPair /\ [][Next]_vars

(***************************************************************************)
(* The one caller, with the paths recorded in owed whose snapshot a poll   *)
(* that raised had changed in presence, size or md5, until their file is   *)
(* written again or the caller removes them or sets their snapshot.        *)
(***************************************************************************)
InitOwed ==
    /\ InitWatcher
    /\ pre = EmptyMap
    /\ queries = {}
    /\ hist = HistOff
    /\ lost = LostOff
    /\ last = LastOff
    /\ kept = KeptOff
    /\ dirty = Off
    /\ owed = {}

SpecOwed == InitOwed /\ [][Next]_vars

(***************************************************************************)
(* Two callers and no lock: while find_changed runs for the first, a       *)
(* second calls add_watched_paths and remove_watched_paths between its     *)
(* per-path steps. The set iterator of line 64 fails at its next step when *)
(* the size of self._paths is not the one it started with; a path taken    *)
(* out of the set is not visited any more, a path put in may or may not be.*)
(* The callers never call set_file_data, and between polls no call starts *)
(* before the second caller's remove_watched_paths is through.            *)
(***************************************************************************)
MidPoll == {"loop", "md5", "update_new", "update_mod"}

ConcAdd(seq) ==
    /\ pc \in MidPoll
    /\ removing = <<>>
    /\ file_data' = AddLoop(file_data, paths, seq)
    /\ paths' = AddPaths(paths, seq)
    /\ \E X \in SUBSET (SetOf(seq) \ paths) : todo' = todo \cup X
    /\ UNCHANGED <<fs, pc, changed, cur, old, st, new_md5, exc, pre, hist, lost,
                   prevReturned, it_used, removing, queries, aux>>

\* Lines 51-53 of the second caller's remove_watched_paths.
ConcRemoveLoop(seq) ==
    /\ pc \in MidPoll
    /\ removing = <<>>
    /\ seq # <<>>
    /\ file_data' = RemoveLoop(file_data, seq)
    /\ removing' = seq
    /\ UNCHANGED <<paths, fs, pc, locals, hist, lost, prevReturned, it_used,
                   queries, aux>>

\* Line 54 of the second caller's remove_watched_paths.
ConcRemovePaths ==
    /\ removing # <<>>
    /\ paths' = RemovePaths(paths, removing)
    /\ todo' = todo \ SetOf(removing)
    /\ removing' = <<>>
    /\ UNCHANGED <<file_data, fs, pc, changed, cur, old, st, new_md5, exc, pre,
                   hist, lost, prevReturned, it_used, queries, aux>>

NextConc ==
    \/ \E seq \in PathLists : removing = <<>> /\ add_watched_paths(seq)
    \/ \E seq \in PathLists : removing = <<>> /\ remove_watched_paths(seq)
    \/ \E p \in Paths, f \in FsStates : FsWrite(p, f)
    \/ FindChangedBegin
    \/ \E p \in Paths : FindChangedStat(p)
    \/ FindChangedMd5
    \/ FindChangedUpdateNew
    \/ FindChangedUpdateMod
    \/ FindChangedReturn
    \/ Returned
    \/ Raised
    \/ \E p \in Paths : ConcAdd(<<p>>)
    \/ \E p \in Paths : ConcRemoveLoop(<<p>>)
    \/ ConcRemovePaths

InitConc ==
    /\ InitWatcher
    /\ pre = PreOff
    /\ queries = QueriesOff
    /\ hist = HistOff
    /\ lost = LostOff
    /\ last = LastOff
    /\ kept = KeptOff
    /\ dirty = Off
    /\ owed = Off

SpecConc == InitConc /\ [][NextConc]_vars

(***************************************************************************)
(* Properties.                                                             *)
(*                                                                         *)
(* At pc = "ret" the variable changed is the set find_changed returns, pre *)
(* is the snapshot map the poll started from and, under Spec, fs is the    *)
(* file system the whole poll saw.                                         *)
(***************************************************************************)

\* C1: between public operations the key set of _file_data equals _paths,
\* whatever add_watched_paths, remove_watched_paths, find_changed and
\* set_file_data were called with, and so the lookup of line 65 never fails.
C1_KeysEqualPaths ==
    /\ pc = "idle" => DOMAIN file_data = paths
    /\ exc # "KeyError"

\* C2: a path added while unwatched and while its file exists is reported by
\* the next find_changed that returns, which leaves its snapshot equal to the
\* file's mtime, size and md5; while the file stays as it is and the path
\* stays watched with no snapshot set by the caller, no later poll reports it.
C2_AddedReportedOnce ==
    \A p \in Paths :
        /\ (pc = "ret" /\ hist[p] = "fresh") =>
               /\ p \in changed
               /\ p \in DOMAIN file_data
               /\ file_data[p] = fs[p]
        /\ hist[p] = "reported" =>
               /\ p \notin changed
               /\ p \in DOMAIN file_data
               /\ file_data[p] = fs[p]

C2_Witness ==
    /\ pc = "ret"
    /\ hist["a"] = "reported"
    /\ hist["b"] = "fresh"
    /\ changed = {"b"}

\* C3: a find_changed that starts right after a find_changed returned, with
\* no file system change and no other operation in between, reports nothing.
C3_SecondPollEmpty ==
    (prevReturned /\ pc # "idle") => changed = {}

C3_Witness ==
    /\ prevReturned
    /\ pc = "ret"
    /\ paths = Paths
    /\ fs["a"] # NotFound
    /\ fs["b"] = NotFound
    /\ hist["a"] = "reported"

\* C4: for a watched path whose snapshot is Present and whose stat differs
\* from it in size or mtime, the poll reports the path exactly when the size
\* or the md5 differs from the snapshot's.
C4_ReportIffSizeOrHash ==
    pc = "ret" =>
        \A p \in paths \cap DOMAIN pre :
            (/\ pre[p] # None
             /\ fs[p] # NotFound
             /\ (fs[p].st_size # pre[p].st_size \/ fs[p].st_mtime # pre[p].st_mtime))
            => (p \in changed <=>
                    (fs[p].st_size # pre[p].st_size \/ fs[p].md5 # pre[p].md5))

\* A touched file (mtime only) is left out, a resized file with the same md5
\* is reported.
C4_Witness ==
    /\ pc = "ret"
    /\ paths = Paths
    /\ pre["a"] # None /\ fs["a"] # NotFound
    /\ fs["a"].st_mtime # pre["a"].st_mtime
    /\ fs["a"].st_size = pre["a"].st_size
    /\ fs["a"].md5 = pre["a"].md5
    /\ pre["b"] # None /\ fs["b"] # NotFound
    /\ fs["b"].st_size # pre["b"].st_size
    /\ fs["b"].md5 = pre["b"].md5
    /\ changed = {"b"}

\* C5: the set a poll builds holds watched paths only, and never a path that
\* was never added, whatever its file is.
C5_OnlyWatchedReported ==
    /\ changed \subseteq paths
    /\ \A p \in changed : hist[p] # "never"

C5_Witness ==
    /\ pc = "ret"
    /\ changed = {"a"}
    /\ hist["b"] = "never"
    /\ "b" \in DOMAIN file_data
    /\ fs["b"] # file_data["b"]

\* C6: a path removed with remove_watched_paths and not added again is in no
\* poll's set, also when its file was created, rewritten or deleted since.
C6_RemovedNeverReported ==
    \A p \in Paths : hist[p] \in {"removed", "removed_changed"} => p \notin changed

C6_Witness ==
    /\ pc = "ret"
    /\ hist["a"] = "removed_changed"
    /\ changed = {"b"}

\* C7: when stat finds no file, the path is reported exactly when its snapshot
\* was Present, and the snapshot is None afterwards.
C7_MissingFile ==
    pc = "ret" =>
        \A p \in paths \cap DOMAIN pre :
            fs[p] = NotFound =>
                /\ p \in DOMAIN file_data
                /\ file_data[p] = None
                /\ p \in changed <=> pre[p] # None

C7_Witness ==
    /\ pc = "ret"
    /\ paths = Paths
    /\ fs["a"] = NotFound /\ pre["a"] # None /\ "a" \in changed
    /\ fs["b"] = NotFound /\ pre["b"] = None /\ "b" \notin changed

\* C8: a watched file that a poll reported as gone and that is back with the
\* size and md5 it had before is reported again by the poll that finds it.
C8_ReappearedReported ==
    pc = "ret" =>
        \A p \in paths \cap DOMAIN pre :
            /\ (pre[p] # None /\ fs[p] = NotFound) => p \in changed
            /\ (lost[p] # None /\ fs[p] # NotFound /\ ContentOf(fs[p]) = lost[p])
                   => p \in changed

C8_Witness ==
    /\ pc = "ret"
    /\ lost["a"] # None
    /\ fs["a"] # NotFound
    /\ ContentOf(fs["a"]) = lost["a"]
    /\ "a" \in changed

\* C9: when an accessor call other than a stat finding no file fails, that
\* failure leaves find_changed and the snapshot of the path at work is the one
\* the poll started with; an entry a poll has written is None or the whole of
\* the file's mtime, size and md5.
C9_FaultLeavesSnapshot ==
    /\ pc = "raised" =>
           /\ Err(exc) \in Faults
           /\ cur \in DOMAIN pre /\ cur \in DOMAIN file_data
           /\ file_data[cur] = pre[cur]
    /\ pc # "idle" =>
           \A p \in DOMAIN file_data \cap DOMAIN pre :
               file_data[p] \in {pre[p], None, fs[p]}

C9_Witness ==
    /\ pc = "raised"
    /\ exc = "OSError"
    /\ cur = "b"
    /\ pre["b"] # None /\ fs["b"] # NotFound
    /\ fs["b"].st_size # pre["b"].st_size
    /\ "a" \in DOMAIN pre
    /\ file_data["a"] # pre["a"]

\* C10: no FileNotFoundError of the accessor's stat leaves find_changed, also
\* when the file goes between the stat of line 67 and the stat of _update.
C10_NotFoundNeverEscalates ==
    pc = "raised" => exc # "FileNotFoundError"

\* C14: find_changed asks for the md5 of a path only when the path is watched,
\* its stat succeeded and its snapshot is None or differs from the stat in size
\* or mtime; a poll that returns has asked for the md5 of every such path, and
\* of no path whose file is missing or whose size and mtime are the snapshot's.
C14_HashOnlyWhenMetaDiffers ==
    \A p \in Paths :
        /\ <<"md5", p>> \in queries =>
               /\ p \in paths /\ p \in DOMAIN pre
               /\ fs[p] # NotFound
               /\ \/ pre[p] = None
                  \/ fs[p].st_size # pre[p].st_size
                  \/ fs[p].st_mtime # pre[p].st_mtime
        /\ (/\ pc = "ret" /\ p \in paths /\ p \in DOMAIN pre
            /\ fs[p] # NotFound
            /\ \/ pre[p] = None
               \/ fs[p].st_size # pre[p].st_size
               \/ fs[p].st_mtime # pre[p].st_mtime)
           => <<"md5", p>> \in queries

\* One poll hashes the touched file a and not the untouched file b, which it
\* only stats.
C14_Witness ==
    /\ pc = "ret"
    /\ paths = Paths
    /\ pre["a"] # None /\ fs["a"] # NotFound
    /\ fs["a"].st_mtime # pre["a"].st_mtime
    /\ pre["b"] # None /\ fs["b"] # NotFound
    /\ fs["b"].st_size = pre["b"].st_size
    /\ fs["b"].st_mtime = pre["b"].st_mtime
    /\ queries = {<<"stat", "a">>, <<"md5", "a">>, <<"stat", "b">>}

\* C15: when find_changed returns, the snapshot of every watched path is None
\* exactly when its file is missing and has the file's size and mtime
\* otherwise; a snapshot that differed from the stat in size or mtime is now
\* the file's mtime, size and md5, whether the path is reported or not.
C15_SnapshotAgreesWithStat ==
    pc = "ret" =>
        \A p \in paths :
            /\ p \in DOMAIN file_data
            /\ file_data[p] = None <=> fs[p] = NotFound
            /\ (file_data[p] # None /\ fs[p] # NotFound) =>
                   /\ file_data[p].st_size = fs[p].st_size
                   /\ file_data[p].st_mtime = fs[p].st_mtime
            /\ (/\ p \in DOMAIN pre /\ pre[p] # None /\ fs[p] # NotFound
                /\ \/ fs[p].st_size # pre[p].st_size
                   \/ fs[p].st_mtime # pre[p].st_mtime)
               => file_data[p] = fs[p]

\* A touched file: not reported, and its snapshot has the new mtime.
C15_Witness ==
    /\ pc = "ret"
    /\ "a" \in paths
    /\ pre["a"] # None /\ fs["a"] # NotFound
    /\ fs["a"].st_mtime # pre["a"].st_mtime
    /\ fs["a"].st_size = pre["a"].st_size
    /\ fs["a"].md5 = pre["a"].md5
    /\ "a" \notin changed
    /\ file_data["a"] = fs["a"]
    /\ file_data["a"] # pre["a"]

\* C16: a watched path whose snapshot has the size and the mtime of its file is
\* not reported by a poll and keeps its snapshot, also when the md5 of the file
\* is not the snapshot's; so the next poll starts from the same snapshot.
C16_SameMetaNeverReported ==
    pc = "ret" =>
        \A p \in paths \cap DOMAIN pre :
            (/\ pre[p] # None /\ fs[p] # NotFound
             /\ fs[p].st_size = pre[p].st_size
             /\ fs[p].st_mtime = pre[p].st_mtime)
            => /\ p \notin changed
               /\ p \in DOMAIN file_data
               /\ file_data[p] = pre[p]

\* The file was rewritten after the poll that recorded it, with another md5
\* and the same size and mtime; the poll leaves the stale md5 in place.
C16_Witness ==
    /\ pc = "ret"
    /\ "a" \in paths
    /\ hist["a"] = "watched"
    /\ pre["a"] # None /\ fs["a"] # NotFound
    /\ fs["a"].st_size = pre["a"].st_size
    /\ fs["a"].st_mtime = pre["a"].st_mtime
    /\ fs["a"].md5 # pre["a"].md5
    /\ "a" \notin changed
    /\ file_data["a"].md5 # fs["a"].md5

\* C11: add_watched_paths leaves the snapshot of every path that is already
\* watched as it is, and leaves the file system alone; a call that repeats the
\* call just made changes neither self._paths nor a snapshot; a poll that
\* follows a returned poll with nothing in between but add_watched_paths calls
\* on watched paths reports nothing, as it does without these calls. (A step
\* between two idle states that ends with last an add call is that call: no
\* other step records one.)
C11_AddKeepsWatched ==
    [][/\ (pc' # "idle" /\ last'.op \in {"add", "add_again"} /\ last'.quiet)
           => changed' = {}
       /\ (pc = "idle" /\ pc' = "idle" /\ last'.op \in {"add", "add_again"})
           => /\ fs' = fs
              /\ last'.arg \subseteq paths'
              /\ \A p \in paths \cap DOMAIN file_data :
                     p \in DOMAIN file_data' /\ file_data'[p] = file_data[p]
              /\ last'.op = "add_again"
                     => (paths' = paths /\ file_data' = file_data)]_vars

\* A poll returned, the watched path a was added twice with the same list, and
\* the next poll returns nothing and finds the snapshot of a in place.
C11_Witness ==
    /\ pc = "ret"
    /\ last.op = "add_again"
    /\ last.quiet
    /\ "a" \in last.arg
    /\ fs["a"] # NotFound
    /\ "a" \in DOMAIN pre /\ pre["a"] = fs["a"]
    /\ changed = {}

\* C13: add_watched_paths and remove_watched_paths make no stat and no md5
\* call, leave the file system alone, raise nothing, and change neither the
\* entry nor the membership in self._paths of a path outside their argument;
\* remove_watched_paths leaves a path of its argument that is not watched
\* unwatched and with the entry, or the lack of one, it had.
C13_AddRemoveFrame ==
    [][\A seq \in PathLists :
           (add_watched_paths(seq) \/ remove_watched_paths(seq)) =>
               /\ queries' = queries
               /\ fs' = fs
               /\ pc' = "idle" /\ exc' = exc
               /\ \A p \in Paths \ SetOf(seq) :
                      /\ p \in paths' <=> p \in paths
                      /\ p \in DOMAIN file_data' <=> p \in DOMAIN file_data
                      /\ p \in DOMAIN file_data => file_data'[p] = file_data[p]
               /\ remove_watched_paths(seq) =>
                      \A p \in SetOf(seq) \ paths :
                          /\ p \notin paths'
                          /\ p \in DOMAIN file_data' <=> p \in DOMAIN file_data]_vars

\* C18: a path removed while watched has no entry while it stays unwatched;
\* once added again its snapshot is None until a poll, and the poll that then
\* returns reports it exactly when its file exists, also when the file is the
\* one the removed snapshot described (no set_file_data on the path meanwhile).
C18_RemoveAddDiscards ==
    \A p \in Paths :
        kept[p] \in {"any", "same"} =>
            /\ p \notin paths => p \notin DOMAIN file_data
            /\ (p \in paths /\ pc = "idle") =>
                   p \in DOMAIN file_data /\ file_data[p] = None
            /\ (p \in paths /\ pc = "ret") =>
                   (p \in changed <=> fs[p] # NotFound)

\* a was removed with a snapshot equal to its file, added again and polled
\* with the file untouched: it is reported; b, removed and added again with
\* no file, is not.
C18_Witness ==
    /\ pc = "ret"
    /\ paths = Paths
    /\ kept["a"] = "same"
    /\ fs["a"] # NotFound
    /\ kept["b"] = "same"
    /\ fs["b"] = NotFound
    /\ changed = {"a"}

\* What a poll reports for a path with snapshot o and file f, and what it
\* leaves as the snapshot, read off lines 65-85.
ReportedFor(o, f) ==
    IF f = NotFound THEN o # None
    ELSE IF o = None THEN TRUE
    ELSE /\ (f.st_size # o.st_size \/ f.st_mtime # o.st_mtime)
         /\ (f.st_size # o.st_size \/ f.md5 # o.md5)

WrittenFor(o, f) ==
    IF f = NotFound THEN None
    ELSE IF o = None THEN f
    ELSE IF f.st_size # o.st_size \/ f.st_mtime # o.st_mtime THEN f
    ELSE o

\* C12 as stated: when q is the one path whose file was written since the last
\* poll returned, and the file is no longer what the snapshot of q describes,
\* the poll returns exactly {q} and leaves the snapshots of the other watched
\* paths unchanged.
C12_OnlyMutatedPathReturned ==
    pc = "ret" =>
        \A q \in paths \cap DOMAIN pre :
            (/\ dirty = {q}
             /\ paths # {q}
             /\ ~(pre[q] = None /\ fs[q] = NotFound)
             /\ pre[q] # fs[q])
            => /\ changed = {q}
               /\ \A p \in (paths \cap DOMAIN file_data) \ {q} :
                      file_data[p] = pre[p]

\* C12, amended: whether a returning poll reports a watched path and what it
\* leaves as its snapshot are functions of that path's snapshot and file alone;
\* when the files written since the last returned poll are those in dirty, the
\* poll returns a subset of dirty (a written path is reported by the rule
\* above: not when only its mtime changed, nor when size and mtime are the
\* snapshot's) and leaves the snapshot of every other watched path unchanged.
C12_PerPathIndependence ==
    pc = "ret" =>
        /\ \A p \in paths :
               /\ p \in DOMAIN pre /\ p \in DOMAIN file_data
               /\ p \in changed <=> ReportedFor(pre[p], fs[p])
               /\ file_data[p] = WrittenFor(pre[p], fs[p])
        /\ (dirty # NoBase /\ dirty # Off) =>
               /\ changed \subseteq dirty
               /\ \A p \in paths \ dirty :
                      p \in DOMAIN pre /\ p \in DOMAIN file_data
                      /\ file_data[p] = pre[p]

\* Both paths polled, then only the file of b rewritten with another size: the
\* next poll returns {b} and the snapshot of a is the one it had.
C12_Witness ==
    /\ pc = "ret"
    /\ paths = Paths
    /\ dirty = {"b"}
    /\ pre["b"] # None /\ fs["b"] # NotFound
    /\ fs["b"].st_size # pre["b"].st_size
    /\ changed = {"b"}
    /\ pre["a"] # None
    /\ file_data["a"] = pre["a"]

\* C17: a poll that returns has in its result every watched path whose snapshot
\* it changed in presence, size or md5, and every watched path whose snapshot
\* an earlier poll changed so before an accessor fault on a later path made it
\* raise (the file not written and the path not removed or set since).
C17_NoChangeAbsorbed ==
    pc = "ret" =>
        /\ \A p \in paths \cap DOMAIN pre \cap DOMAIN file_data :
               SnapshotChanged(pre[p], file_data[p]) => p \in changed
        /\ owed # Off => (owed \cap paths) \subseteq changed

\* C19: with a second caller's add_watched_paths and remove_watched_paths
\* running between the per-path steps of find_changed and no lock, find_changed
\* raises nothing but an accessor fault (no KeyError at line 65, no
\* RuntimeError of the iterator), and once both callers are done the keys of
\* self._file_data are the paths of self._paths.
C19_ConcurrentLockStep ==
    /\ pc = "raised" => Err(exc) \in Faults
    /\ (pc = "idle" /\ removing = <<>>) => DOMAIN file_data = paths

====
